---- MODULE Spec2Model ----
(***************************************************************************)
(* Model of app/player/player.go: the reflectedStream handle of one play   *)
(* request (resolve, fetchData, prepareWriter, then the io.ReadSeeker that *)
(* http.ServeContent drives), the reflector that stores the encrypted      *)
(* blobs, and the arithmetic of Read, Seek and the size estimate.          *)
(*                                                                         *)
(* Sizes are scaled: a cipher block is BlockSize bytes instead of 16, a     *)
(* blob is MaxBlocks blocks instead of 131072 and an int64 is IntBits bits *)
(* wide instead of 64.  All arithmetic of the code is done in that width,  *)
(* wrapping as Go's does.                                                  *)
(***************************************************************************)
EXTENDS Integers, Sequences, FiniteSets, TLC

\* ------------------------------------------------------------- bounds
MaxBlocks == 2
IntBits == 6
MaxBlobs == 2
NumReqs == 2

\* --------------------------------------------------- program constants
\* aes.BlockSize (16), the block of the cipher stream.DecryptBlob undoes
BlockSize == 4
\* "last padding is unguessable": s.Size -= 15, the longest padding of a
\* block but one byte
LastPadding == BlockSize - 1
\* io.SeekStart, io.SeekCurrent, io.SeekEnd
SeekStart == 0
SeekCurrent == 1
SeekEnd == 2

\* stream.MaxBlobSize (2097152 in lbry.go, MaxBlocks * BlockSize here)
MaxBlobSize == MaxBlocks * BlockSize

\* ------------------------------------------------------ int64 and int
MinInt64 == 0 - 2 ^ (IntBits - 1)
MaxInt64 == 2 ^ (IntBits - 1) - 1

\* the value an int64 holds after an arithmetic result x (two's complement)
Wrap(x) == ((x - MinInt64) % (2 ^ IntBits)) + MinInt64

\* Go's a / b on integers truncates toward zero
Quot(a, b) ==
    IF a >= 0 THEN a \div b ELSE 0 - ((0 - a) \div b)

Min(a, b) == IF a <= b THEN a ELSE b

\* --------------------------------------------- the published stream
\* What the reflector stores: a stream is the plaintext lengths of its
\* data blobs (lens) and whether its descriptor ends with the zero-length
\* stream terminator entry (term).  The plaintext byte at logical position
\* i of the stream is the number i.
RECURSIVE SumTo(_, _)
SumTo(lens, k) == IF k = 0 THEN 0 ELSE SumTo(lens, k - 1) + lens[k]

TotalPlain(p) == SumTo(p.lens, Len(p.lens))

\* plaintext of data blob number b (0-based)
PlainBlob(p, b) ==
    [j \in 1..p.lens[b + 1] |-> SumTo(p.lens, b) + j - 1]

\* the logical concatenation of all blobs' plaintext
Logical(p) == [i \in 1..TotalPlain(p) |-> i - 1]

StreamKey == 7
BlobIV(b) == 3 * b + 1
BlobHashOf(b) == b + 1
NoHash == 0

Mask(key, iv, i) == (key + iv + i) % 256

\* the cipher blob the publisher stores: the plaintext, padded to a whole
\* number of blocks with pad bytes that each hold the pad length, masked
\* with the key and the IV
Encrypt(plain, key, iv) ==
    LET pad == BlockSize - (Len(plain) % BlockSize)
        padded == plain \o [i \in 1..pad |-> pad]
    IN [i \in 1..Len(padded) |-> (padded[i] + Mask(key, iv, i)) % 256]

CipherBlob(p, b) == Encrypt(PlainBlob(p, b), StreamKey, BlobIV(b))

\* a body damaged on the way: its last byte no longer decrypts to a pad
Corrupt(body, key, iv) ==
    [body EXCEPT ![Len(body)] = Mask(key, iv, Len(body))]

\* the blob entries of the stream descriptor, in sequence-number order
BlobInfoOf(p, b) ==
    [BlobNum |-> b, BlobHash |-> BlobHashOf(b),
     Length |-> Len(CipherBlob(p, b)), IV |-> BlobIV(b)]

Terminator(p) ==
    [BlobNum |-> Len(p.lens), BlobHash |-> NoHash, Length |-> 0,
     IV |-> BlobIV(Len(p.lens))]

Descriptor(p) ==
    [b \in 1..Len(p.lens) |-> BlobInfoOf(p, b - 1)]
        \o (IF p.term THEN <<Terminator(p)>> ELSE <<>>)

\* stream.DecryptBlob: unmask, then strip the padding the last byte names
DecryptBlob(body, key, iv) ==
    IF Len(body) = 0 \/ Len(body) % BlockSize # 0
    THEN [err |-> "decrypt", plain |-> <<>>]
    ELSE LET clear == [i \in 1..Len(body) |->
                          (body[i] - Mask(key, iv, i)) % 256]
             pad == clear[Len(body)]
         IN IF pad < 1 \/ pad > BlockSize
            THEN [err |-> "decrypt", plain |-> <<>>]
            ELSE [err |-> "nil",
                  plain |-> SubSeq(clear, 1, Len(body) - pad)]

\* the streams a reflector may hold: the regular ones, whose non-final
\* blobs are full, with and without the terminator entry, streams whose
\* non-final blobs are short, and the empty stream, whose descriptor lists
\* the terminator alone
FinalLens == {1, MaxBlobSize - 2, MaxBlobSize - 1}

Streams ==
    { [lens |-> [i \in 1..nb |-> IF i = nb THEN l ELSE MaxBlobSize - 1],
       term |-> t] :
        nb \in 1..MaxBlobs, l \in FinalLens, t \in BOOLEAN }
    \cup
    { [lens |-> [i \in 1..nb |->
                   IF i = nb THEN MaxBlobSize - 1 ELSE BlockSize - 1],
       term |-> TRUE] : nb \in 2..MaxBlobs }
    \cup {[lens |-> <<>>, term |-> TRUE]}

\* every non-final blob is full: it decrypts to MaxBlobSize - 1 bytes
Regular(p) ==
    \A i \in 1..(Len(p.lens) - 1) : p.lens[i] = MaxBlobSize - 1

\* the orders in which a descriptor document may list the entries
Perms(seq) ==
    { [i \in 1..Len(seq) |-> seq[f[i]]] :
        f \in { g \in [1..Len(seq) -> 1..Len(seq)] :
                  \A i, j \in 1..Len(seq) : i # j => g[i] # g[j] } }

\* what a GET of reflectorURL + hash may answer: no answer, a status other
\* than 200, or 200 with a body that cannot be read, that is the stored
\* blob, or that is the stored blob damaged
GetBlob(p, hash) ==
    {[kind |-> "transport", body |-> <<>>],
     [kind |-> "status", body |-> <<>>]}
    \cup
    UNION { IF BlobHashOf(b) = hash
            THEN {[kind |-> "ok", body |-> CipherBlob(p, b)],
                  [kind |-> "corrupt",
                   body |-> Corrupt(CipherBlob(p, b), StreamKey, BlobIV(b))],
                  [kind |-> "readall", body |-> <<>>]}
            ELSE {} : b \in 0..(Len(p.lens) - 1) }

\* what lbrynet.Resolve may answer for a URI: an error, or a stream with
\* or without a fee, with or without an sd hash, with or without a size
URIs == {"", "lbry://clip"}

NoFee == [nil |-> TRUE, Amount |-> 0]

Fees == {NoFee} \cup { [nil |-> FALSE, Amount |-> a] : a \in {0, 1} }

Resolutions(p) ==
    {[err |-> "resolve", fee |-> NoFee, sdHash |-> "", mediaType |-> "",
      size |-> 0]}
    \cup
    { [err |-> "nil", fee |-> f, sdHash |-> h, mediaType |-> "video/mp4",
       size |-> z] :
        f \in Fees, h \in {"", "sd"}, z \in {0, TotalPlain(p)} }

\* ------------------------------------------------------------- state
\* the play requests; each owns one reflectedStream.  Spec runs request 1.
Reqs == 1..NumReqs

VARIABLES
    pub,    \* the stream the reflector holds
    pc,     \* pc[r]: where play request r is in PlayURI
    rs,     \* rs[h]: the reflectedStream object h
    w,      \* w[r]: the Content-Type header of r's response writer
    calls,  \* calls[r]: the network calls r has issued outside Read
    last,   \* last[r]: the last Read or Seek call of r and what it returned
    ctx,    \* ctx[r]: req.Context() of r, "live" until the client goes away
    inflight \* inflight[r]: the blob GET r's Read is waiting for

vars == <<pub, pc, rs, w, calls, last, ctx, inflight>>

NilSDBlob == [nil |-> TRUE, Key |-> 0, BlobInfos |-> <<>>]

ZeroStream ==
    [URI |-> "", SdHash |-> "", Size |-> 0, ContentType |-> "",
     SDBlob |-> NilSDBlob, seekOffset |-> 0]

NoCall == [op |-> "none"]

NoGet == [op |-> "none"]

\* a player that keeps one reflectedStream for all its requests
HandleOf_Shared(r) == 1

\* line 61: &reflectedStream{URI: uri} is a new object in every call, so
\* request r works on an object of its own
HandleOf(r) == r

Init ==
    /\ pub \in Streams
    /\ pc = [r \in Reqs |-> IF r = 1 THEN "new" ELSE "idle"]
    /\ rs = [r \in Reqs |-> ZeroStream]
    /\ w = [r \in Reqs |-> ""]
    /\ calls = [r \in Reqs |-> [resolve |-> 0, sd |-> 0]]
    /\ last = [r \in Reqs |-> NoCall]
    /\ ctx = [r \in Reqs |-> "live"]
    /\ inflight = [r \in Reqs |-> NoGet]

\* ----------------------------------------------------------- resolve
\* a resolve that serves paid streams
Paid_Never(res) == FALSE

\* line 135
Paid(res) == ~res.fee.nil /\ res.fee.Amount > 0

\* resolve, given the resolver's answer: the error, the fields it sets, and
\* whether lbrynet.Resolve was called
\* a resolve that hands an empty uri to the resolver
resolve_NoURICheck(s, res) ==
    IF res.err # "nil" THEN [err |-> res.err, s |-> s, called |-> TRUE]
    ELSE IF Paid(res) THEN [err |-> "paid stream", s |-> s, called |-> TRUE]
    ELSE [err |-> "nil",
          s |-> [s EXCEPT !.SdHash = res.sdHash,
                          !.ContentType = res.mediaType,
                          !.Size = Wrap(res.size)],
          called |-> TRUE]

\* lines 119-146
resolve(s, res) ==
    IF s.URI = ""
    THEN [err |-> "stream uri is not set", s |-> s, called |-> FALSE]
    ELSE IF res.err # "nil" THEN [err |-> res.err, s |-> s, called |-> TRUE]
    ELSE IF Paid(res) THEN [err |-> "paid stream", s |-> s, called |-> TRUE]
    ELSE [err |-> "nil",
          s |-> [s EXCEPT !.SdHash = res.sdHash,
                          !.ContentType = res.mediaType,
                          !.Size = Wrap(res.size)],
          called |-> TRUE]

\* a PlayURI that goes on after a failed step
AfterStep_IgnoreError(err, next) == next

\* lines 47-49 and 51-53: PlayURI returns the error of a failed step
AfterStep(err, next) == IF err = "nil" THEN next ELSE "failed"

\* PlayURI's first step: newReflectedStream(uri), which resolves, for one
\* uri and one answer of the resolver.  The call record keeps the uri and,
\* when the resolver answered, the fee it named.
newReflectedStreamCall(r, uri, res) ==
    LET out == resolve([ZeroStream EXCEPT !.URI = uri], res)
        answered == out.called /\ res.err = "nil"
    IN /\ pc[r] = "new"
       /\ rs' = [rs EXCEPT ![HandleOf(r)] = out.s]
       /\ pc' = [pc EXCEPT ![r] = AfterStep(out.err, "resolved")]
       /\ calls' = [calls EXCEPT ![r].resolve =
                      IF out.called THEN 1 ELSE 0]
       /\ last' = [last EXCEPT ![r] =
                     [op |-> "resolve", uri |-> uri,
                      answered |-> answered,
                      fee |-> IF answered THEN res.fee ELSE NoFee,
                      err |-> out.err]]
       /\ UNCHANGED <<pub, w, ctx, inflight>>

newReflectedStream(r) ==
    \E uri \in URIs, res \in Resolutions(pub) :
        newReflectedStreamCall(r, uri, res)

\* --------------------------------------------------------- fetchData
\* the size estimate of lines 173-184: one term per blob entry, then -15
\* an estimate that forgets the byte of padding of a full blob
BlobContribution_NoOverhead(bi) == bi.Length

BlobContribution(bi) ==
    IF bi.Length = MaxBlobSize THEN MaxBlobSize - 1 ELSE bi.Length

RECURSIVE SumContributions(_, _, _)
SumContributions(size, infos, k) ==
    IF k > Len(infos) THEN size
    ELSE SumContributions(Wrap(size + BlobContribution(infos[k])),
                          infos, k + 1)

EstimateSize(size, infos) ==
    IF size = 0
    THEN Wrap(SumContributions(size, infos, 1) - LastPadding)
    ELSE size

\* a fetchData that keeps the wire order of the entries
SortByBlobNum_WireOrder(infos) == infos

\* sort.Slice by BlobNum; on slices this short it is an insertion sort
RECURSIVE InsertByBlobNum(_, _)
InsertByBlobNum(sorted, bi) ==
    IF sorted = <<>> THEN <<bi>>
    ELSE IF bi.BlobNum < sorted[Len(sorted)].BlobNum
         THEN InsertByBlobNum(SubSeq(sorted, 1, Len(sorted) - 1), bi)
                  \o <<sorted[Len(sorted)]>>
         ELSE Append(sorted, bi)

RECURSIVE SortByBlobNum(_)
SortByBlobNum(infos) ==
    IF infos = <<>> THEN <<>>
    ELSE InsertByBlobNum(SortByBlobNum(SubSeq(infos, 1, Len(infos) - 1)),
                         infos[Len(infos)])

\* what the GET of the stream descriptor may answer
SDResponses(p) ==
    {[kind |-> "transport", infos |-> <<>>],
     [kind |-> "readall", infos |-> <<>>],
     [kind |-> "parse", infos |-> <<>>]}
    \cup { [kind |-> "ok", infos |-> wire] : wire \in Perms(Descriptor(p)) }

\* lines 148-197, for the answers the GET of the descriptor may give.  The
\* call record keeps the size before the call and the entries as the
\* descriptor listed them.
fetchDataCall(r, responses) ==
    /\ pc[r] = "resolved"
    /\ LET h == HandleOf(r)
           call == [op |-> "fetchData", sizeBefore |-> rs[h].Size]
       IN \/ /\ rs[h].SdHash = ""
             /\ pc' = [pc EXCEPT ![r] =
                         AfterStep("no sd hash set", "fetched")]
             /\ last' = [last EXCEPT ![r] =
                           call @@ [err |-> "no sd hash set",
                                    wire |-> <<>>]]
             /\ UNCHANGED <<rs, calls>>
          \/ /\ rs[h].SdHash # ""
             /\ \E resp \in responses :
                  /\ calls' = [calls EXCEPT ![r].sd = 1]
                  /\ IF resp.kind # "ok"
                     THEN /\ pc' = [pc EXCEPT ![r] =
                                      AfterStep(resp.kind, "fetched")]
                          /\ last' = [last EXCEPT ![r] =
                                        call @@ [err |-> resp.kind,
                                                 wire |-> <<>>]]
                          /\ UNCHANGED rs
                     ELSE /\ pc' = [pc EXCEPT ![r] =
                                      AfterStep("nil", "fetched")]
                          /\ last' = [last EXCEPT ![r] =
                                        call @@ [err |-> "nil",
                                                 wire |-> resp.infos]]
                          /\ rs' = [rs EXCEPT
                                      ![h].Size =
                                          EstimateSize(rs[h].Size,
                                                       resp.infos),
                                      ![h].SDBlob =
                                          [nil |-> FALSE, Key |-> StreamKey,
                                           BlobInfos |->
                                               SortByBlobNum(resp.infos)]]
    /\ UNCHANGED <<pub, w, ctx, inflight>>

fetchData(r) == fetchDataCall(r, SDResponses(pub))

\* lines 199-201
prepareWriter(r) ==
    /\ pc[r] = "fetched"
    /\ w' = [w EXCEPT ![r] = rs[HandleOf(r)].ContentType]
    /\ pc' = [pc EXCEPT ![r] = "serving"]
    /\ UNCHANGED <<pub, rs, calls, last, ctx, inflight>>

\* -------------------------------------------------------------- Seek
\* a Seek that takes every other whence for SeekCurrent
ValidWhence_Any(whence) == TRUE

ValidWhence(whence) == whence \in {SeekEnd, SeekStart, SeekCurrent}

\* a Seek that takes SeekEnd as io.Seeker defines it, size + offset
NewSeekOffset_EndPlus(s, offset, whence) ==
    IF whence = SeekEnd THEN Wrap(s.Size + offset)
    ELSE IF whence = SeekStart THEN offset
    ELSE Wrap(s.seekOffset + offset)

\* a Seek that takes SeekStart relative to the cursor
NewSeekOffset_StartRelative(s, offset, whence) ==
    IF whence = SeekEnd THEN Wrap(s.Size - offset)
    ELSE Wrap(s.seekOffset + offset)

\* lines 97-102: the offset Seek computes, in int64
NewSeekOffset(s, offset, whence) ==
    IF whence = SeekEnd THEN Wrap(s.Size - offset)
    ELSE IF whence = SeekStart THEN offset
    ELSE Wrap(s.seekOffset + offset)

\* a Seek that moves the cursor before it checks the offset
SeekResult_AssignFirst(s, offset, whence) ==
    IF ~ValidWhence(whence)
    THEN [ret |-> 0, err |-> "invalid seek whence argument",
          seekOffset |-> s.seekOffset]
    ELSE IF 0 > NewSeekOffset(s, offset, whence)
    THEN [ret |-> 0, err |-> "seeking before the beginning of file",
          seekOffset |-> NewSeekOffset(s, offset, whence)]
    ELSE [ret |-> NewSeekOffset(s, offset, whence), err |-> "nil",
          seekOffset |-> NewSeekOffset(s, offset, whence)]

\* a Seek without the check of lines 107-109
SeekResult_NoCheck(s, offset, whence) ==
    IF ~ValidWhence(whence)
    THEN [ret |-> 0, err |-> "invalid seek whence argument",
          seekOffset |-> s.seekOffset]
    ELSE [ret |-> NewSeekOffset(s, offset, whence), err |-> "nil",
          seekOffset |-> NewSeekOffset(s, offset, whence)]

\* lines 94-113: what Seek returns and the cursor it leaves
SeekResult(s, offset, whence) ==
    IF ~ValidWhence(whence)
    THEN [ret |-> 0, err |-> "invalid seek whence argument",
          seekOffset |-> s.seekOffset]
    ELSE IF 0 > NewSeekOffset(s, offset, whence)
    THEN [ret |-> 0, err |-> "seeking before the beginning of file",
          seekOffset |-> s.seekOffset]
    ELSE [ret |-> NewSeekOffset(s, offset, whence), err |-> "nil",
          seekOffset |-> NewSeekOffset(s, offset, whence)]

\* a Seek that also takes the new offset for the size
SeekAssign_AlsoSize(s, newSeekOffset) ==
    [s EXCEPT !.seekOffset = newSeekOffset, !.Size = newSeekOffset]

\* line 111: the one field Seek assigns
SeekAssign(s, newSeekOffset) == [s EXCEPT !.seekOffset = newSeekOffset]

\* line 55: ServeContent calls Read and Seek while it serves the response
Serving(r) == pc[r] = "serving"

\* lines 93-113, one call
SeekCall(r, whence, offset) ==
    LET h == HandleOf(r)
        out == SeekResult(rs[h], offset, whence)
    IN /\ rs' = [rs EXCEPT ![h] = SeekAssign(rs[h], out.seekOffset)]
       /\ last' = [last EXCEPT ![r] =
                     [op |-> "Seek", whence |-> whence,
                      offset |-> offset, ret |-> out.ret,
                      err |-> out.err]]
       /\ UNCHANGED <<pub, pc, w, calls, ctx, inflight>>

\* the Seek calls a caller issues: every start offset around the stream, and the
\* ends of the int64 range
Whences == {SeekStart, SeekCurrent, SeekEnd, 3}

SeekOffsets(whence) ==
    {MinInt64, -1, 0, 1, MaxInt64}
    \cup (IF whence = SeekStart THEN 0..(MaxBlobs * MaxBlobSize) ELSE {})

Seek(r) ==
    /\ Serving(r)
    /\ \E whence \in Whences :
         \E offset \in SeekOffsets(whence) : SeekCall(r, whence, offset)

\* -------------------------------------------------------------- Read
\* line 72: the blob the cursor is taken to lie in
BlobNumOf(seekOffset) == Quot(seekOffset, MaxBlobSize - 2)

\* lines 74-78: the offset within that blob
StartOffsetInBlob(seekOffset, blobNum) ==
    IF blobNum = 0
    THEN Wrap(seekOffset - Wrap(blobNum * MaxBlobSize))
    ELSE Wrap(Wrap(seekOffset - Wrap(blobNum * MaxBlobSize)) + blobNum)

\* lines 249-252
EndOffsetInBlob(destLen, startOffsetInBlob, decryptedLen) ==
    IF Wrap(destLen + startOffsetInBlob) > decryptedLen
    THEN decryptedLen
    ELSE Wrap(destLen + startOffsetInBlob)

\* a Read that reports the buffer's length instead of the bytes copied
CopyN_BufferLen(destLen, sliceLen) == destLen

\* lines 254-255: copy(dest, slice) copies, and returns, the shorter length
CopyN(destLen, sliceLen) == Min(destLen, sliceLen)

\* line 254: decryptedBody[start:end] panics unless 0 <= start <= end <= len
SliceOk(startOffsetInBlob, endOffsetInBlob, decryptedLen) ==
    /\ 0 <= startOffsetInBlob
    /\ startOffsetInBlob <= endOffsetInBlob
    /\ endOffsetInBlob <= decryptedLen

\* lines 203-269, from the response of the GET on: what streamBlob returns
\* (n, err, and the bytes copied into dest) or that it panics, and how often
\* it called DecryptBlob.  n is 0 on entry, so lines 205-207 never reset
\* startOffsetInBlob.
streamBlobAfterGet(s, bi, startOffsetInBlob, destLen, resp) ==
    IF resp.kind = "transport" \/ resp.kind = "readall"
    THEN [n |-> 0, err |-> resp.kind, data |-> <<>>, decrypts |-> 0]
    ELSE IF resp.kind = "status"
    THEN [n |-> 0, err |-> "unexpected status", data |-> <<>>,
          decrypts |-> 0]
    ELSE LET dec == DecryptBlob(resp.body, s.SDBlob.Key, bi.IV)
             endOffsetInBlob ==
                 EndOffsetInBlob(destLen, startOffsetInBlob, Len(dec.plain))
         IN IF dec.err # "nil"
            THEN [n |-> 0, err |-> dec.err, data |-> <<>>, decrypts |-> 1]
            ELSE IF ~SliceOk(startOffsetInBlob, endOffsetInBlob,
                             Len(dec.plain))
            THEN [n |-> 0, err |-> "panic", data |-> <<>>, decrypts |-> 1]
            ELSE LET slice == SubSeq(dec.plain, startOffsetInBlob + 1,
                                     endOffsetInBlob)
                 IN [n |-> CopyN(destLen, Len(slice)),
                     err |-> "nil",
                     data |-> SubSeq(slice, 1, Min(destLen, Len(slice))),
                     decrypts |-> 1]

\* line 204: s.SDBlob.BlobInfos[blobNum] panics outside the index
InIndex(s, blobNum) ==
    /\ ~s.SDBlob.nil
    /\ 0 <= blobNum
    /\ blobNum < Len(s.SDBlob.BlobInfos)

\* a streamBlob that answers from the blob of the Read before, if it is the
\* same one
BlobGets_Cached(prev, blobNum) ==
    IF prev.op = "Read" /\ prev.err = "nil" /\ prev.blobNum = blobNum
    THEN 0 ELSE 1

\* line 217: the GETs one streamBlob call issues, whatever call came before:
\* the reflectedStream keeps no blob, and there is no loop around the GET
BlobGets(prev, blobNum) == 1

\* a Read that moves the cursor by the length of its buffer
AdvanceCursor_ByBuffer(seekOffset, n, destLen) == Wrap(seekOffset + destLen)

\* line 89
AdvanceCursor(seekOffset, n, destLen) == Wrap(seekOffset + n)

BufferLens(p) ==
    {0, 1, MaxBlobSize} \cup { p.lens[i] : i \in 1..Len(p.lens) }

\* lines 72-78: what a Read into a buffer of bufferLen bytes works out before
\* it calls streamBlob.  seq tells that the call continues an unbroken run of
\* Reads into buffers of this length that began at cursor 0, none of which
\* failed or returned 0.
ReadArgs(r, bufferLen) ==
    LET s == rs[HandleOf(r)]
        blobNum == BlobNumOf(s.seekOffset)
    IN [op |-> "Read", bufferLen |-> bufferLen,
        pre |-> s.seekOffset, blobNum |-> blobNum,
        startOffsetInBlob |-> StartOffsetInBlob(s.seekOffset, blobNum),
        seq |-> /\ bufferLen >= 1
                /\ \/ last[r].op \notin {"Seek", "Read"}
                   \/ /\ last[r].op = "Read"
                      /\ last[r].seq
                      /\ last[r].bufferLen = bufferLen
                      /\ last[r].err = "nil"
                      /\ last[r].n >= 1]

\* line 204 panics: the Read ends the request's goroutine
ReadPanic(r, call) ==
    /\ pc' = [pc EXCEPT ![r] = "panicked"]
    /\ last' = [last EXCEPT ![r] =
                  call @@ [n |-> 0, err |-> "panic", data |-> <<>>,
                           gets |-> 0, decrypts |-> 0, hash |-> NoHash,
                           fetch |-> "none"]]
    /\ UNCHANGED rs

\* lines 80-90, from the response of streamBlob's GET on
ReadReturn(r, call, gets, resp) ==
    LET h == HandleOf(r)
        s == rs[h]
        bi == s.SDBlob.BlobInfos[call.blobNum + 1]
        out == streamBlobAfterGet(s, bi, call.startOffsetInBlob,
                                  call.bufferLen, resp)
    IN /\ last' = [last EXCEPT ![r] =
                     call @@ [n |-> out.n, err |-> out.err,
                              data |-> out.data, gets |-> gets,
                              decrypts |-> out.decrypts,
                              hash |-> bi.BlobHash,
                              fetch |-> resp.kind]]
       /\ IF out.err = "panic"
          THEN /\ pc' = [pc EXCEPT ![r] = "panicked"]
               /\ UNCHANGED rs
          ELSE /\ pc' = [pc EXCEPT ![r] = "serving"]
               /\ rs' = [rs EXCEPT ![h].seekOffset =
                           AdvanceCursor(s.seekOffset, out.n,
                                         call.bufferLen)]

\* lines 67-91, one call
ReadCall(r, bufferLen) ==
    LET s == rs[HandleOf(r)]
        call == ReadArgs(r, bufferLen)
    IN /\ \/ /\ ~InIndex(s, call.blobNum)
             /\ ReadPanic(r, call)
          \/ /\ InIndex(s, call.blobNum)
             /\ \E resp \in GetBlob(pub,
                     s.SDBlob.BlobInfos[call.blobNum + 1].BlobHash) :
                  ReadReturn(r, call, BlobGets(last[r], call.blobNum), resp)
       /\ UNCHANGED <<pub, w, calls, ctx, inflight>>

Read(r) ==
    /\ Serving(r)
    /\ \E bufferLen \in BufferLens(pub) : ReadCall(r, bufferLen)

\* ------------------------------------------------------ specification
Next ==
    \E r \in Reqs :
        \/ newReflectedStream(r)
        \/ fetchData(r)
        \/ prepareWriter(r)
        \/ Seek(r)
        \/ Read(r)

Spec == Init /\ [][Next]_vars

\* ------------------------------------------- a request that is aborted
\* The client may go away at any point of a request.  Here a Read is taken
\* in the two steps its blocking GET divides it into, so that the abort can
\* fall between them.
\* ServeContent makes no further Read or Seek call once the client is gone
ClientThere(r) == ctx[r] = "live"

\* line 45: the client closes the connection, and req.Context() is done
Abort(r) ==
    /\ ctx[r] = "live"
    /\ pc[r] \in {"new", "resolved", "fetched", "serving", "fetching"}
    /\ ctx' = [ctx EXCEPT ![r] = "cancelled"]
    /\ UNCHANGED <<pub, pc, rs, w, calls, last, inflight>>

AbortStreams ==
    {[lens |-> <<MaxBlobSize - 1, 1>>, term |-> TRUE],
     [lens |-> <<1>>, term |-> FALSE]}

AbortSeekOffsets == {0, 1, MaxBlobSize - 1, MaxBlobSize}

SeekWhileThere(r) ==
    /\ Serving(r)
    /\ ClientThere(r)
    /\ \E offset \in AbortSeekOffsets : SeekCall(r, SeekStart, offset)

\* lines 67-78 and 203-217: Read up to the point where http.Get(url) blocks
ReadUntilGet(r) ==
    /\ Serving(r)
    /\ ClientThere(r)
    /\ \E bufferLen \in BufferLens(pub) :
         LET call == ReadArgs(r, bufferLen)
         IN \/ /\ ~InIndex(rs[HandleOf(r)], call.blobNum)
               /\ ReadPanic(r, call)
               /\ UNCHANGED <<pub, w, calls, ctx, inflight>>
            \/ /\ InIndex(rs[HandleOf(r)], call.blobNum)
               /\ inflight' = [inflight EXCEPT ![r] = call]
               /\ pc' = [pc EXCEPT ![r] = "fetching"]
               /\ UNCHANGED <<pub, rs, w, calls, last, ctx>>

\* lines 217-269 and 80-90: http.Get(url) takes no context, so it returns
\* what the reflector answers, whether the client is still there or not
ReadAfterGet(r) ==
    /\ pc[r] = "fetching"
    /\ LET call == inflight[r]
           s == rs[HandleOf(r)]
       IN \E resp \in GetBlob(pub,
                  s.SDBlob.BlobInfos[call.blobNum + 1].BlobHash) :
            ReadReturn(r, call, BlobGets(last[r], call.blobNum), resp)
    /\ inflight' = [inflight EXCEPT ![r] = NoGet]
    /\ UNCHANGED <<pub, w, calls, ctx>>

InitAbort == Init /\ pub \in AbortStreams

NextAbort ==
    \E r \in Reqs :
        \/ newReflectedStream(r)
        \/ fetchData(r)
        \/ prepareWriter(r)
        \/ SeekWhileThere(r)
        \/ ReadUntilGet(r)
        \/ ReadAfterGet(r)
        \/ Abort(r)

SpecAbort == InitAbort /\ [][NextAbort]_vars

\* ------------------------------------------- requests side by side
\* Every request of Reqs plays the same stream at the same time, each in its
\* own call of PlayURI; the steps of the calls interleave in every order.
ConcurrentStreams == {[lens |-> <<MaxBlobSize - 1, 1>>, term |-> TRUE]}

\* the resolver fails, or names a free stream without a size
ConcurrentResolutions(p) ==
    { res \in Resolutions(p) :
        \/ res.err # "nil"
        \/ res.fee.nil /\ res.sdHash = "sd" /\ res.size = 0 }

\* the descriptor cannot be fetched, or lists its entries last to first
ConcurrentSDResponses(p) ==
    { resp \in SDResponses(p) :
        \/ resp.kind = "transport"
        \/ /\ resp.kind = "ok"
           /\ \A i \in 1..(Len(resp.infos) - 1) :
                 resp.infos[i].BlobNum > resp.infos[i + 1].BlobNum }

newReflectedStreamConcurrent(r) ==
    \E res \in ConcurrentResolutions(pub) :
        newReflectedStreamCall(r, "lbry://clip", res)

fetchDataConcurrent(r) == fetchDataCall(r, ConcurrentSDResponses(pub))

ConcurrentSeekOffsets == {0, MaxBlobSize - 1}

SeekConcurrent(r) ==
    /\ Serving(r)
    /\ \E offset \in ConcurrentSeekOffsets : SeekCall(r, SeekStart, offset)

ReadConcurrent(r) ==
    /\ Serving(r)
    /\ ReadCall(r, MaxBlobSize)

InitConcurrent ==
    /\ pub \in ConcurrentStreams
    /\ pc = [r \in Reqs |-> "new"]
    /\ rs = [r \in Reqs |-> ZeroStream]
    /\ w = [r \in Reqs |-> ""]
    /\ calls = [r \in Reqs |-> [resolve |-> 0, sd |-> 0]]
    /\ last = [r \in Reqs |-> NoCall]
    /\ ctx = [r \in Reqs |-> "live"]
    /\ inflight = [r \in Reqs |-> NoGet]

NextConcurrent ==
    \E r \in Reqs :
        \/ newReflectedStreamConcurrent(r)
        \/ fetchDataConcurrent(r)
        \/ prepareWriter(r)
        \/ SeekConcurrent(r)
        \/ ReadConcurrent(r)

SpecConcurrent == InitConcurrent /\ [][NextConcurrent]_vars

\* ------------------------------------------------------------ claims
\* request r has just made a Seek call (the step is r's Seek)
SeekStep(r) ==
    /\ last'[r].op = "Seek"
    /\ <<last[r], rs[r]>> # <<last'[r], rs'[r]>>

\* request r has just made a Read call
ReadStep(r) ==
    /\ last'[r].op = "Read"
    /\ <<last[r], rs[r], pc[r]>> # <<last'[r], rs'[r], pc'[r]>>

\* the reflector answered the Read's GET with the stored blob, or the Read
\* issued no GET
FetchWorked(call) == call.fetch \in {"ok", "none"}

SingleBlob(p) == Len(p.lens) = 1

\* C1: random access is correct: on a stream whose non-final blobs are
\* full, Seek(c, Start) with 0 <= c < total plaintext length followed by a
\* Read into a non-empty buffer returns n >= 1 bytes and no error, and the
\* bytes are plaintext[c .. c+n) of the logical stream.
C1_RandomAccess ==
    [][\A r \in Reqs :
         ( /\ Regular(pub)
           /\ last[r].op = "Seek"
           /\ last[r].whence = SeekStart
           /\ last[r].err = "nil"
           /\ last[r].offset < TotalPlain(pub)
           /\ ReadStep(r)
           /\ last'[r].bufferLen >= 1
           /\ FetchWorked(last'[r]) )
         => /\ last'[r].err = "nil"
            /\ last'[r].n >= 1
            /\ last'[r].data =
                   SubSeq(Logical(pub), last[r].offset + 1,
                          last[r].offset + last'[r].n)]_vars

\* C2: on a single-blob stream of plaintext length L, Read at cursor 0
\* into a buffer of size L returns the L bytes of the blob's plaintext, and
\* the Read that follows it returns 0 bytes and no error.
C2_SingleBlobThenEOF ==
    [][\A r \in Reqs :
         /\ ( /\ SingleBlob(pub)
              /\ ReadStep(r)
              /\ last'[r].pre = 0
              /\ last'[r].bufferLen = pub.lens[1]
              /\ FetchWorked(last'[r]) )
            => /\ last'[r].err = "nil"
               /\ last'[r].n = pub.lens[1]
               /\ last'[r].data = PlainBlob(pub, 0)
         /\ ( /\ SingleBlob(pub)
              /\ last[r].op = "Read"
              /\ last[r].pre = 0
              /\ last[r].bufferLen = pub.lens[1]
              /\ last[r].err = "nil"
              /\ ReadStep(r)
              /\ FetchWorked(last'[r]) )
            => /\ last'[r].err = "nil"
               /\ last'[r].n = 0]_vars

ClaimedOffset(s, offset, whence) ==
    IF whence = SeekStart THEN offset
    ELSE IF whence = SeekEnd THEN s.Size - offset
    ELSE s.seekOffset + offset

C5_SeekRoundTrip ==
    [][\A r \in Reqs :
         ( /\ last[r].op = "Seek"
           /\ last[r].whence = SeekStart
           /\ last[r].offset >= 0
           /\ SeekStep(r)
           /\ last'[r].whence = SeekCurrent
           /\ last'[r].offset = 0 )
         => /\ last'[r].err = "nil"
            /\ last'[r].ret = last[r].offset
            /\ rs'[r].seekOffset = last[r].offset]_vars

C5_Witness ==
    \E r \in Reqs :
        /\ last[r].op = "Seek"
        /\ last[r].whence = SeekCurrent
        /\ last[r].offset = 0
        /\ last[r].err = "nil"
        /\ rs[r].Size > 0
        /\ last[r].ret = rs[r].Size
        /\ rs[r].seekOffset = rs[r].Size

\* C6: a Seek whose computed offset is negative (Start with offset -1,
\* Current with cursor + offset < 0, End with offset > size) fails with an
\* error and leaves the cursor as it was.
C6_NegativeSeekFails ==
    [][\A r \in Reqs :
         ( /\ SeekStep(r)
           /\ last'[r].whence \in {SeekStart, SeekCurrent, SeekEnd}
           /\ Wrap(ClaimedOffset(rs[r], last'[r].offset,
                                 last'[r].whence)) < 0 )
         => /\ last'[r].err = "seeking before the beginning of file"
            /\ last'[r].ret = 0
            /\ rs'[r].seekOffset = rs[r].seekOffset]_vars

C6_Witness ==
    \E r \in Reqs :
        /\ last[r].op = "Seek"
        /\ last[r].whence = SeekEnd
        /\ last[r].offset > rs[r].Size
        /\ last[r].err = "seeking before the beginning of file"
        /\ rs[r].seekOffset > 0

\* C7: a Seek with a whence other than Start, Current or End fails with
\* the invalid-whence error, for every offset, and leaves the cursor as it
\* was.
C7_InvalidWhenceFails ==
    [][\A r \in Reqs :
         ( /\ SeekStep(r)
           /\ last'[r].whence \notin {SeekStart, SeekCurrent, SeekEnd} )
         => /\ last'[r].err = "invalid seek whence argument"
            /\ last'[r].ret = 0
            /\ rs'[r].seekOffset = rs[r].seekOffset]_vars

C7_Witness ==
    \E r \in Reqs :
        /\ last[r].op = "Seek"
        /\ last[r].whence \notin {SeekStart, SeekCurrent, SeekEnd}
        /\ last[r].offset > 0
        /\ last[r].err = "invalid seek whence argument"
        /\ rs[r].seekOffset > 0

\* C8: the cursor is never negative, and it changes only in a Seek that
\* succeeds or in a Read that returns without error.
C8_CursorInvariant ==
    /\ \A r \in Reqs : rs[r].seekOffset >= 0
    /\ [][\A r \in Reqs :
            /\ rs'[r].seekOffset >= 0
            /\ rs'[r].seekOffset # rs[r].seekOffset
               => /\ SeekStep(r) \/ ReadStep(r)
                  /\ last'[r].err = "nil"]_vars

C8_Witness ==
    \E r \in Reqs :
        /\ last[r].op = "Read"
        /\ last[r].err \notin {"nil", "panic"}
        /\ last[r].pre > 0
        /\ rs[r].seekOffset = last[r].pre

\* C9: a Read whose cursor maps to a blob number outside the blob index
\* returns an error and 0 bytes, does not crash, and leaves the cursor as
\* it was.
C9_OutOfIndexReturnsError ==
    \A r \in Reqs :
        ( /\ last[r].op = "Read"
          /\ last[r].blobNum >= Len(rs[r].SDBlob.BlobInfos) )
        => /\ last[r].err \notin {"nil", "panic"}
           /\ last[r].n = 0
           /\ rs[r].seekOffset = last[r].pre

\* the declared lengths of the entries k..Len(infos) of a blob index
RECURSIVE SumLengths(_, _)
SumLengths(infos, k) ==
    IF k > Len(infos) THEN 0 ELSE infos[k].Length + SumLengths(infos, k + 1)

FullEntries(infos) ==
    {i \in 1..Len(infos) : infos[i].Length = MaxBlobSize}

\* C10: when resolution supplied size 0, the index fetch sets size to the
\* sum over the blob entries of maxBlobSize - 1 for an entry of declared
\* length maxBlobSize and of the declared length otherwise, minus the
\* last-padding correction (15 for the 16-byte block); N entries all of
\* length maxBlobSize give N * (maxBlobSize - 1) less that correction.  A
\* size resolution supplied is left unchanged.
C10_SizeEstimate ==
    \A r \in Reqs :
        (last[r].op = "fetchData" /\ last[r].err = "nil") =>
            LET infos == rs[r].SDBlob.BlobInfos
            IN IF last[r].sizeBefore = 0
               THEN /\ rs[r].Size =
                         SumLengths(infos, 1)
                           - Cardinality(FullEntries(infos)) - LastPadding
                    /\ Cardinality(FullEntries(infos)) = Len(infos)
                       => rs[r].Size =
                            Len(infos) * (MaxBlobSize - 1) - LastPadding
               ELSE rs[r].Size = last[r].sizeBefore

C10_Witness ==
    \E r \in Reqs :
        /\ last[r].op = "fetchData"
        /\ last[r].err = "nil"
        /\ last[r].sizeBefore = 0
        /\ Len(rs[r].SDBlob.BlobInfos) = 2
        /\ Cardinality(FullEntries(rs[r].SDBlob.BlobInfos)) = 2
        /\ rs[r].Size = 2 * (MaxBlobSize - 1) - LastPadding

\* two sequences hold the same entries, each as often
SameEntries(a, b) ==
    /\ Len(a) = Len(b)
    /\ \A i \in 1..Len(a) :
         Cardinality({k \in 1..Len(a) : a[k] = a[i]})
             = Cardinality({k \in 1..Len(b) : b[k] = a[i]})

Ascending(infos) ==
    \A i \in 1..(Len(infos) - 1) : infos[i].BlobNum <= infos[i + 1].BlobNum

\* C11: whatever the order of the entries in the descriptor document, after
\* a successful index fetch the blob index holds exactly the parsed entries
\* in ascending order of sequence number, and it stays so; hence a Read at
\* cursor 0 addresses index position 0, fetches the blob the descriptor
\* numbers 0 and, when it returns bytes, returns the first bytes of that
\* blob's plaintext.
C11_IndexSorted ==
    \A r \in Reqs :
        /\ (last[r].op = "fetchData" /\ last[r].err = "nil")
               => /\ ~rs[r].SDBlob.nil
                  /\ SameEntries(rs[r].SDBlob.BlobInfos, last[r].wire)
        /\ Ascending(rs[r].SDBlob.BlobInfos)
        /\ (last[r].op = "Read" /\ last[r].pre = 0)
               => /\ last[r].blobNum = 0
                  /\ last[r].gets = 1
                  /\ \E k \in 1..Len(Descriptor(pub)) :
                        /\ Descriptor(pub)[k].BlobNum = 0
                        /\ Descriptor(pub)[k].BlobHash = last[r].hash
                  /\ (last[r].err = "nil" /\ last[r].n > 0)
                        => last[r].data
                               = SubSeq(PlainBlob(pub, 0), 1, last[r].n)

\* an index fetch whose descriptor listed another entry before entry 0
C11_Witness ==
    \E r \in Reqs :
        /\ last[r].op = "fetchData"
        /\ last[r].err = "nil"
        /\ Len(last[r].wire) >= 2
        /\ last[r].wire[1].BlobNum # 0
        /\ rs[r].SDBlob.BlobInfos[1].BlobNum = 0

\* C12: a request whose uri is empty fails with the validation error before
\* any network call: the resolver is not called, the descriptor is not
\* fetched, no Read (so no blob fetch) is ever made, nothing is written to
\* the response, and SdHash, ContentType and Size stay unset.
C12_EmptyURIFails ==
    \A r \in Reqs :
        (pc[r] \notin {"new", "idle"} /\ rs[r].URI = "")
            => /\ pc[r] = "failed"
               /\ last[r].op = "resolve"
               /\ last[r].uri = ""
               /\ last[r].err = "stream uri is not set"
               /\ calls[r] = [resolve |-> 0, sd |-> 0]
               /\ inflight[r] = NoGet
               /\ w[r] = ""
               /\ rs[r].SdHash = ""
               /\ rs[r].ContentType = ""
               /\ rs[r].Size = 0
               /\ rs[r].SDBlob.nil

\* a request with an empty uri has failed, whatever the resolver would have
\* answered
C12_Witness ==
    \E r \in Reqs :
        /\ last[r].op = "resolve"
        /\ last[r].uri = ""
        /\ pc[r] = "failed"

\* C13: when the resolver answers with a fee whose amount is above 0 the
\* request fails with the paid-stream error and stops there: the descriptor
\* is not fetched, no Read (so no blob fetch) is made and nothing is written
\* to the response; an answer without a fee, or with a fee of amount 0, is
\* not refused as paid.
C13_PaidStreamRefused ==
    \A r \in Reqs :
        /\ (last[r].op = "resolve" /\ last[r].answered)
              => IF ~last[r].fee.nil /\ last[r].fee.Amount > 0
                 THEN /\ last[r].err = "paid stream"
                      /\ pc[r] = "failed"
                      /\ calls[r].sd = 0
                      /\ inflight[r] = NoGet
                      /\ w[r] = ""
                 ELSE /\ last[r].err = "nil"
                      /\ pc[r] = "resolved"
        /\ (last[r].op = "resolve" /\ last[r].err = "paid stream")
              => /\ last[r].answered
                 /\ ~last[r].fee.nil
                 /\ last[r].fee.Amount > 0
        /\ pc[r] \notin {"new", "idle", "failed"}
              => calls[r].resolve = 1

\* a request for a paid stream has been refused
C13_Witness ==
    \E r \in Reqs :
        /\ last[r].op = "resolve"
        /\ last[r].answered
        /\ last[r].fee.Amount > 0
        /\ last[r].err = "paid stream"
        /\ pc[r] = "failed"

\* the Read addressed a blob of the index
AddressedIndex(r) ==
    /\ last[r].op = "Read"
    /\ InIndex(rs[r], last[r].blobNum)

C15_FailedReadKeepsCursor ==
    \A r \in Reqs :
        last[r].op = "Read"
            => /\ last[r].fetch \in {"transport", "status", "readall",
                                      "corrupt"}
                     => /\ last[r].err \notin {"nil", "panic"}
                        /\ pc[r] = "serving"
               /\ last[r].err # "nil"
                     => /\ last[r].n = 0
                        /\ last[r].data = <<>>
                        /\ rs[r].seekOffset = last[r].pre
               /\ last[r].err = "nil"
                     => /\ Len(last[r].data) = last[r].n
                        /\ rs[r].seekOffset = last[r].pre + last[r].n

\* a Read away from cursor 0 whose blob arrived damaged: it failed and the
\* cursor stayed
C15_Witness ==
    \E r \in Reqs :
        /\ last[r].op = "Read"
        /\ last[r].fetch = "corrupt"
        /\ last[r].err = "decrypt"
        /\ last[r].bufferLen > 0
        /\ last[r].pre > 0
        /\ rs[r].seekOffset = last[r].pre

\* C16: a request resolves, then fetches the index, then sets Content-Type,
\* and only then is Read or sought.  After a failed resolution the index
\* fetch is not started; after a failed resolution or index fetch the
\* request has ended with that error, no header written and no Read or Seek
\* made; and the index fetch on a stream without sd hash fails without a
\* network call.
C16_StepsInOrder ==
    \A r \in Reqs :
        /\ (last[r].op = "resolve" /\ last[r].err # "nil")
              => (pc[r] = "failed" /\ calls[r].sd = 0)
        /\ last[r].op = "fetchData"
              => /\ calls[r].resolve = 1
                 /\ last[r].err # "nil" => pc[r] = "failed"
                 /\ rs[r].SdHash = ""
                       <=> last[r].err = "no sd hash set"
                 /\ rs[r].SdHash = "" => calls[r].sd = 0
        /\ pc[r] = "failed"
              => /\ last[r].op \in {"resolve", "fetchData"}
                 /\ last[r].err # "nil"
                 /\ w[r] = ""
                 /\ rs[r].SDBlob.nil
                 /\ inflight[r] = NoGet
        /\ (w[r] # "" \/ last[r].op \in {"Seek", "Read"}
                \/ inflight[r] # NoGet)
              => /\ calls[r] = [resolve |-> 1, sd |-> 1]
                 /\ ~rs[r].SDBlob.nil
                 /\ w[r] = rs[r].ContentType
                 /\ w[r] # ""
        /\ calls[r].sd = 1 => calls[r].resolve = 1

\* an index fetch on a resolved stream without sd hash: it failed, and no
\* descriptor was asked for
C16_Witness ==
    \E r \in Reqs :
        /\ last[r].op = "fetchData"
        /\ last[r].err = "no sd hash set"
        /\ calls[r] = [resolve |-> 1, sd |-> 0]
        /\ pc[r] = "failed"
        /\ w[r] = ""

\* C17: when the client aborts the request while a blob fetch is in flight,
\* the fetch is cancelled, so that the Read ends with an error, returns no
\* byte and leaves the cursor; and no blob fetch is started once the request
\* is aborted.
C17_AbortCancelsFetch ==
    [][\A r \in Reqs :
          /\ (pc[r] = "fetching" /\ ctx[r] = "cancelled"
                 /\ pc'[r] # "fetching")
                => /\ last'[r].err # "nil"
                   /\ last'[r].n = 0
                   /\ rs'[r].seekOffset = rs[r].seekOffset
          /\ (ctx[r] = "cancelled" /\ inflight[r] = NoGet)
                => inflight'[r] = NoGet]_vars

\* C18: once the index fetch has completed, no step changes the key, the
\* blob index (entries and order), Size, SdHash, ContentType or URI of the
\* stream; a Read or Seek changes nothing of it but the cursor.
C18_FrozenAfterFetch ==
    [][\A r \in Reqs :
          (~rs[r].SDBlob.nil \/ SeekStep(r) \/ ReadStep(r))
              => /\ rs'[r].SDBlob = rs[r].SDBlob
                 /\ rs'[r].Size = rs[r].Size
                 /\ rs'[r].SdHash = rs[r].SdHash
                 /\ rs'[r].ContentType = rs[r].ContentType
                 /\ rs'[r].URI = rs[r].URI]_vars

\* a stream that was sought and then Read from away from its start, with the
\* fields of the index fetch as that left them
C18_Witness ==
    \E r \in Reqs :
        /\ last[r].op = "Read"
        /\ last[r].pre > 0
        /\ last[r].n > 0
        /\ rs[r].seekOffset = last[r].pre + last[r].n
        /\ rs[r].SDBlob
              = [nil |-> FALSE, Key |-> StreamKey,
                 BlobInfos |-> Descriptor(pub)]
        /\ rs[r].Size = TotalPlain(pub)
        /\ rs[r].SdHash = "sd"
        /\ rs[r].ContentType = "video/mp4"
        /\ rs[r].URI = "lbry://clip"

\* all the state of request q
Local(q) == <<pc[q], rs[q], w[q], calls[q], last[q], ctx[q], inflight[q]>>

\* what request r holds and what its last call returned is what the stream
\* and r's own calls determine, as in a run of r alone
OwnResult(r) ==
    /\ ~rs[r].SDBlob.nil
          => /\ rs[r].SDBlob.BlobInfos = Descriptor(pub)
             /\ rs[r].Size = TotalPlain(pub)
    /\ (last[r].op = "Seek" /\ last[r].err = "nil")
          => /\ last[r].ret = last[r].offset
             /\ rs[r].seekOffset = last[r].offset
    /\ last[r].op = "Read"
          => /\ rs[r].seekOffset = last[r].pre + last[r].n
             /\ last[r].err = "nil"
                   => last[r].data
                          = SubSeq(Logical(pub), last[r].pre + 1,
                                   last[r].pre + last[r].n)

\* C19: requests are isolated.  When several requests play at the same
\* time, each on a reflectedStream of its own, then under every interleaving
\* of their steps a step of one request leaves all state of every other
\* request as it was, and the cursor, size, blob index and returned bytes of
\* each request are those its own calls determine.
C19_RequestsIsolated ==
    /\ [][\E r \in Reqs :
             \A q \in Reqs \ {r} : Local(q)' = Local(q)]_vars
    /\ [](\A r \in Reqs : OwnResult(r))

\* two requests serve at once, each after a Read of its own, at different
\* cursors
C19_Witness ==
    /\ pc[1] = "serving"
    /\ pc[2] = "serving"
    /\ last[1].op = "Read"
    /\ last[1].pre = 0
    /\ last[1].n = MaxBlobSize - 1
    /\ rs[1].seekOffset = MaxBlobSize - 1
    /\ last[2].op = "Read"
    /\ last[2].pre = MaxBlobSize - 1
    /\ last[2].n = 1
    /\ rs[2].seekOffset = MaxBlobSize

\* C20: sequential streaming completes.  On a stream of two or more blobs
\* whose non-final blobs are full, in a run of Reads into buffers of one
\* length b >= 1 that starts at cursor 0 and whose fetches all work, no Read
\* fails or panics, every Read before the end of the stream returns at least
\* one byte, the bytes returned are the plaintext from the cursor on, and
\* the Read at the end of the stream returns 0 bytes and no error.
C20_SequentialStreaming ==
    \A r \in Reqs :
        (/\ last[r].op = "Read"
         /\ last[r].seq
         /\ Regular(pub)
         /\ Len(pub.lens) >= 2
         /\ FetchWorked(last[r]))
            => /\ last[r].err = "nil"
               /\ last[r].pre <= TotalPlain(pub)
               /\ last[r].pre < TotalPlain(pub) => last[r].n >= 1
               /\ last[r].pre = TotalPlain(pub) => last[r].n = 0
               /\ last[r].data = SubSeq(Logical(pub), last[r].pre + 1,
                                        last[r].pre + last[r].n)

\* C21: on a stream whose non-final blobs are full, for every cursor c with
\* 0 <= c < Size that a Seek or earlier Reads have reached, the offset Read
\* computes for the blob it addresses lies between 0 and the length of that
\* blob's plaintext, so that slicing the decrypted blob never panics.
C21_OffsetInBlobInRange ==
    \A r \in Reqs :
        (/\ last[r].op = "Read"
         /\ Regular(pub)
         /\ rs[r].Size = TotalPlain(pub)
         /\ 0 <= last[r].pre
         /\ last[r].pre < rs[r].Size
         /\ last[r].fetch = "ok")
            => /\ 0 <= last[r].startOffsetInBlob
               /\ last[r].startOffsetInBlob
                      <= Len(PlainBlob(pub, last[r].blobNum))
               /\ last[r].err # "panic"
====
